---- MODULE Spec2Model ----
(***************************************************************************)
(* Model of Unc_DJI.py: DJI highlight markers -> MP4 chapters.             *)
(*                                                                         *)
(* Text is modelled as sequences of symbols.  In exiftool output the       *)
(* symbol "H" stands for the field name 'HighlightMarkers' and "NL" for    *)
(* the line terminator.  In file names "_chapters" is the processed        *)
(* suffix and ".mp4"/".txt" are extensions.                                *)
(***************************************************************************)
EXTENDS Integers, Sequences, FiniteSets, TLC

\* ------------------------------------------------------------------ bounds
MaxOut == 5        \* longest exiftool output, in symbols
MaxMarkers == 3    \* longest marker list handed to create_metadata_file
MaxSec == 2        \* marker offsets 0..MaxSec (plus SampleSecs)
MaxFiles == 3      \* most files in the working directory

\* ------------------------------------------------------- program constants
MsPerSec == 1000
SecPerMin == 60
TitleWidth == 2

VARIABLES
    pc,             \* position of the program
    fsFaulty,       \* environment: file operations outside try blocks may raise
    tools,          \* check_tools: local dict tool -> probe outcome
    checkRet,       \* value returned by check_tools
    toolMissing,    \* history: some probe raised FileNotFoundError
    exitCode,       \* process exit status ("none" while running)
    fs,             \* names of the files in the working directory
    written,        \* history: names the run has created or overwritten
    mp4_files,      \* process_directory: the enumerated batch
    idx,            \* process_directory: position of the loop in mp4_files
    total_files, success_files, skipped_files,
    failed_files,   \* history: files for which inject_chapters returned False
    stdout,         \* exiftool result of the current file
    markers,        \* marker list of the current file
    metadata,       \* chapter blocks written by create_metadata_file
    returncode,     \* exit status of the last ffmpeg run
    injectRet,      \* value returned by inject_chapters ("none" before)
    status,         \* history: per-file state of section 4.5
    extractCalls,   \* history: files passed to extract_dji_markers
    injectCalls,    \* history: <<file, markers>> passed to inject_chapters
    ffmpegRuns,     \* history: number of ffmpeg runs per batch position
    summaryWritten  \* history: the summary block was written

vars == <<pc, fsFaulty, tools, checkRet, toolMissing, exitCode, fs, written,
          mp4_files, idx, total_files, success_files, skipped_files,
          failed_files, stdout, markers, metadata, returncode, injectRet,
          status, extractCalls, injectCalls, ffmpegRuns, summaryWritten>>

\* ------------------------------------------------------------ text helpers
SeqsUpTo(S, n) == UNION {[1..k -> S] : k \in 0..n}

Range(s) == {s[i] : i \in 1..Len(s)}

Whitespace == {" "}
Digits == {"0", "1", "2", "3", "4", "5", "6", "7", "8", "9"}

DigitVal(c) ==
    CASE c = "0" -> 0 [] c = "1" -> 1 [] c = "2" -> 2 [] c = "3" -> 3
      [] c = "4" -> 4 [] c = "5" -> 5 [] c = "6" -> 6 [] c = "7" -> 7
      [] c = "8" -> 8 [] c = "9" -> 9

DigitChar(d) ==
    CASE d = 0 -> "0" [] d = 1 -> "1" [] d = 2 -> "2" [] d = 3 -> "3"
      [] d = 4 -> "4" [] d = 5 -> "5" [] d = 6 -> "6" [] d = 7 -> "7"
      [] d = 8 -> "8" [] d = 9 -> "9"

\* str.splitlines(): pieces between terminators, no trailing empty piece
RECURSIVE SplitLines(_)
SplitLines(s) ==
    IF s = <<>> THEN <<>>
    ELSE IF \E i \in 1..Len(s) : s[i] = "NL"
         THEN LET i == CHOOSE j \in 1..Len(s) :
                           s[j] = "NL" /\ \A k \in 1..(j - 1) : s[k] # "NL"
              IN <<SubSeq(s, 1, i - 1)>> \o SplitLines(SubSeq(s, i + 1, Len(s)))
         ELSE <<s>>

\* str.strip()
RECURSIVE LStrip(_)
LStrip(s) ==
    IF s # <<>> /\ s[1] \in Whitespace THEN LStrip(Tail(s)) ELSE s

RECURSIVE RStrip(_)
RStrip(s) ==
    IF s # <<>> /\ s[Len(s)] \in Whitespace
    THEN RStrip(SubSeq(s, 1, Len(s) - 1)) ELSE s

Strip(s) == RStrip(LStrip(s))

\* str.split(','): always at least one piece
RECURSIVE SplitComma(_)
SplitComma(s) ==
    IF \E i \in 1..Len(s) : s[i] = ","
    THEN LET i == CHOOSE j \in 1..Len(s) :
                      s[j] = "," /\ \A k \in 1..(j - 1) : s[k] # ","
         IN <<SubSeq(s, 1, i - 1)>> \o SplitComma(SubSeq(s, i + 1, Len(s)))
    ELSE <<s>>

\* 'HighlightMarkers' in line
HasMarkerField(line) == "H" \in Range(line)

\* re.search(r':\s*(.+)$', line) finds a match
RegexMatches(line) == \E i \in 1..(Len(line) - 1) : line[i] = ":"

\* match.group(1): the text after the leftmost colon, leading whitespace
\* consumed by \s* as far as (.+) still keeps one character
RegexGroup(line) ==
    LET i == CHOOSE j \in 1..(Len(line) - 1) :
                 line[j] = ":" /\ \A k \in 1..(j - 1) : line[k] # ":"
        rest == SubSeq(line, i + 1, Len(line))
    IN IF LStrip(rest) = <<>> THEN <<rest[Len(rest)]>> ELSE LStrip(rest)

\* value of a run of decimal digits
RECURSIVE DigitsValue(_)
DigitsValue(ds) ==
    IF ds = <<>> THEN 0
    ELSE 10 * DigitsValue(SubSeq(ds, 1, Len(ds) - 1)) + DigitVal(ds[Len(ds)])

\* int(m.strip()) accepts an optional sign followed by digits
IntParses(tok) ==
    LET t == Strip(tok)
        body == IF t # <<>> /\ t[1] \in {"-", "+"} THEN Tail(t) ELSE t
    IN body # <<>> /\ Range(body) \subseteq Digits

IntValue(tok) ==
    LET t == Strip(tok)
    IN IF t[1] = "-" THEN 0 - DigitsValue(Tail(t))
       ELSE IF t[1] = "+" THEN DigitsValue(Tail(t))
       ELSE DigitsValue(t)

\* sorted(): stable ascending sort, duplicates kept
RECURSIVE Insert(_, _)
Insert(x, s) ==
    IF s = <<>> THEN <<x>>
    ELSE IF x < s[1] THEN <<x>> \o s
    ELSE <<s[1]>> \o Insert(x, Tail(s))

RECURSIVE Sorted(_)
Sorted(s) ==
    IF s = <<>> THEN <<>> ELSE Insert(s[Len(s)], Sorted(SubSeq(s, 1, Len(s) - 1)))

\* the body of the 'if match:' branch for one line; a ValueError from int()
\* lands in the except clause, which returns []
ParseMarkerLine(line) ==
    LET toks == SplitComma(Strip(RegexGroup(line)))
    IN IF \A i \in 1..Len(toks) : IntParses(toks[i])
       THEN Sorted([i \in 1..Len(toks) |-> IntValue(toks[i])])
       ELSE <<>>

\* the for loop over result.stdout.splitlines()
RECURSIVE ScanLines(_)
ScanLines(lines) ==
    IF lines = <<>> THEN <<>>
    ELSE IF HasMarkerField(lines[1]) /\ RegexMatches(lines[1])
         THEN ParseMarkerLine(lines[1])
         ELSE ScanLines(Tail(lines))

\* extract_dji_markers on the outcome of subprocess.run: the exit status is
\* never read, an exception from the call yields []
extract_dji_markers(res) ==
    IF res.raised THEN <<>> ELSE ScanLines(SplitLines(res.stdout))

\* --------------------------------------------------- create_metadata_file
\* format(n, '02d'): decimal digits, sign included, zero-padded to width 2
RECURSIVE NatDigits(_)
NatDigits(n) ==
    IF n < 10 THEN <<DigitChar(n)>>
    ELSE NatDigits(n \div 10) \o <<DigitChar(n % 10)>>

RECURSIVE ZeroPad(_, _)
ZeroPad(ds, width) ==
    IF Len(ds) >= width THEN ds ELSE ZeroPad(<<"0">> \o ds, width)

Format02d(n) ==
    IF n >= 0 THEN ZeroPad(NatDigits(n), TitleWidth)
    ELSE <<"-">> \o ZeroPad(NatDigits(0 - n), TitleWidth - 1)

\* chapter_title = f"Highlight {mm:02d}:{ss:02d}"
ChapterTitle(marker_sec) ==
    <<"Highlight", " ">> \o Format02d(marker_sec \div SecPerMin)
        \o <<":">> \o Format02d(marker_sec % SecPerMin)

StartMs(ms, i) == ms[i] * MsPerSec

EndMs_OffByOne(ms, i) ==
    IF i + 1 < Len(ms) THEN ms[i + 1] * MsPerSec ELSE StartMs(ms, i) + MsPerSec

\* 0-based 'i + 1 < len(markers)' is 'i < Len(ms)' for 1-based i
EndMs(ms, i) ==
    IF i < Len(ms) THEN ms[i + 1] * MsPerSec ELSE StartMs(ms, i) + MsPerSec

ChapterBlock(ms, i) ==
    [TIMEBASE |-> <<1, MsPerSec>>,
     START    |-> StartMs(ms, i),
     END      |-> EndMs(ms, i),
     title    |-> ChapterTitle(ms[i])]

\* the text written to the metadata file: header, then one block per marker
create_metadata_file(ms) ==
    [header |-> ";FFMETADATA1",
     chapters |-> [i \in 1..Len(ms) |-> ChapterBlock(ms, i)]]

NoMetadata == [header |-> "", chapters |-> <<>>]

\* ------------------------------------------------------------ input spaces
OutChars == {"H", ":", ",", " ", "-", "1", "2", "NL"}

ExifResults ==
    {[raised |-> FALSE, returncode |-> rc, stdout |-> s] :
        rc \in {0, 1}, s \in SeqsUpTo(OutChars, MaxOut)}
    \cup {[raised |-> TRUE, returncode |-> 1, stdout |-> <<>>]}

NoExifResult == [raised |-> FALSE, returncode |-> 0, stdout |-> <<>>]

SampleSecs == {59, 60, 65, 125}
MarkerVals == (0..MaxSec) \cup SampleSecs

IsAscending(s) == \A i \in 1..(Len(s) - 1) : s[i] <= s[i + 1]

MarkerLists ==
    {s \in SeqsUpTo(MarkerVals, MaxMarkers) : s # <<>> /\ IsAscending(s)}

\* every variable of the batch driver at its value before main() starts
Idle ==
    /\ fsFaulty = FALSE
    /\ tools = <<>>
    /\ checkRet = "none"
    /\ toolMissing = FALSE
    /\ exitCode = "none"
    /\ fs = {}
    /\ written = {}
    /\ mp4_files = <<>>
    /\ idx = 0
    /\ total_files = 0
    /\ success_files = 0
    /\ skipped_files = 0
    /\ failed_files = 0
    /\ returncode = 0
    /\ injectRet = "none"
    /\ status = <<>>
    /\ extractCalls = {}
    /\ injectCalls = {}
    /\ ffmpegRuns = <<>>
    /\ summaryWritten = FALSE

driverVars ==
    <<fsFaulty, tools, checkRet, toolMissing, exitCode, fs, written,
      mp4_files, idx, total_files, success_files, skipped_files,
      failed_files, returncode, injectRet, status, extractCalls,
      injectCalls, ffmpegRuns, summaryWritten>>

\* ---------------------------------------------------------- file names
\* a name is a sequence of symbols, the last one its extension
Exts == {".mp4", ".txt"}

\* stems of the files the working directory may hold: a clip, its processed
\* copy, and names that carry the suffix elsewhere or consist of it
Stems == {<<"a">>, <<"a", "_chapters">>, <<"_chapters", "a">>, <<"_chapters">>}
DirNames == {s \o <<e>> : s \in Stems, e \in Exts}
Directories == {d \in SUBSET DirNames : Cardinality(d) <= MaxFiles}

LogName == <<"chapter_injection_log", ".txt">>

\* Path.suffix and Path.stem
PathSuffix(name) ==
    IF Len(name) > 1 /\ name[Len(name)] \in Exts
    THEN <<name[Len(name)]>> ELSE <<>>

PathStem(name) == SubSeq(name, 1, Len(name) - Len(PathSuffix(name)))

\* Path('.').glob('*.mp4')
GlobMp4(files) == {n \in files : n[Len(n)] = ".mp4"}

\* list(...) of the glob: the directory is listed in an unspecified order
Listings(S) ==
    {q \in [1..Cardinality(S) -> S] : \A x \in S : \E i \in DOMAIN q : q[i] = x}

\* video_file.stem.endswith('_chapters')
IsProcessed_StartsWith(name) == PathStem(name)[1] = "_chapters"

IsProcessed(name) == PathStem(name)[Len(PathStem(name))] = "_chapters"

\* output_file = input_path.stem + "_chapters" + input_path.suffix
OutputFile_NoSuffix(name) == PathStem(name) \o PathSuffix(name)

OutputFile(name) == PathStem(name) \o <<"_chapters">> \o PathSuffix(name)

\* metadata_file = f"temp_chapters_{input_path.stem}.txt"
MetadataFile(name) == <<"temp_chapters_">> \o PathStem(name) \o <<".txt">>

\* ---------------------------------------------------------- check_tools
ToolNames == {"exiftool", "ffmpeg"}
ProbeOutcomes == {"ok", "nonzero", "notfound"}

\* tools[tool] = True unless the probe raised FileNotFoundError
ToolAvailable(outcome) == outcome # "notfound"

MissingTools_First(probes) ==
    {t \in {"exiftool"} : ~ToolAvailable(probes[t])}

MissingTools(probes) == {t \in ToolNames : ~ToolAvailable(probes[t])}

\* ------------------------------------------------------ driver helpers
\* 'if not markers'
NoMarkers_Never(ms) == FALSE

NoMarkers(ms) == ms = <<>>

\* returncode == 0 and Path(output_file).exists()
InjectSuccess_ExitOnly(rc, outExists) == rc = 0

InjectSuccess(rc, outExists) == rc = 0 /\ outExists

\* Path(metadata_file).unlink(missing_ok=True) in the except clause
ExceptCleanup_Forgotten(files, name) == files

ExceptCleanup(files, name) == files \ {MetadataFile(name)}

\* 'continue' / end of the loop body: the next position of the for loop
ContinueLoop_Break(i, n) == IF i < n THEN n + 1 ELSE i + 1

ContinueLoop(i, n) == i + 1

\* exiftool results the batch driver is run against
SampleResults ==
    { [raised |-> FALSE, returncode |-> 0, stdout |-> <<>>],
      [raised |-> FALSE, returncode |-> 1, stdout |-> <<"H", ":", "-">>],
      [raised |-> FALSE, returncode |-> 0,
       stdout |-> <<"H", ":", "2", ",", "1">>],
      [raised |-> TRUE, returncode |-> 1, stdout |-> <<>>] }

Terminal == {"SKIPPED_PROCESSED", "SKIPPED_NOMARKERS", "SUCCEEDED", "FAILED"}

Current == mp4_files[idx]
InLoop == pc = "loop" /\ idx <= Len(mp4_files)

\* ------------------------------------------------------------------ main
Init ==
    /\ pc = "main"
    /\ fsFaulty \in BOOLEAN
    /\ tools = <<>>
    /\ checkRet = "none"
    /\ toolMissing = FALSE
    /\ exitCode = "none"
    /\ fs \in Directories
    /\ written = {}
    /\ mp4_files = <<>>
    /\ idx = 0
    /\ total_files = 0
    /\ success_files = 0
    /\ skipped_files = 0
    /\ failed_files = 0
    /\ stdout = NoExifResult
    /\ markers = <<>>
    /\ metadata = NoMetadata
    /\ returncode = 0
    /\ injectRet = "none"
    /\ status = <<>>
    /\ extractCalls = {}
    /\ injectCalls = {}
    /\ ffmpegRuns = <<>>
    /\ summaryWritten = FALSE

fileLocals == <<stdout, markers, metadata, returncode, injectRet>>
counters == <<total_files, success_files, skipped_files, failed_files>>
toolVars == <<tools, checkRet, toolMissing>>
history == <<extractCalls, injectCalls, ffmpegRuns>>

\* check_tools(): probe both tools, report the missing ones
CheckTools ==
    /\ pc = "main"
    /\ \E probes \in [ToolNames -> ProbeOutcomes] :
          /\ tools' = probes
          /\ checkRet' = IF MissingTools(probes) = {} THEN "true" ELSE "false"
          /\ toolMissing' = \E t \in ToolNames : probes[t] = "notfound"
    /\ pc' = "checked"
    /\ UNCHANGED <<fsFaulty, exitCode, fs, written, mp4_files, idx, status,
                   summaryWritten>>
    /\ UNCHANGED <<fileLocals, counters, history>>

\* main(): if not check_tools(): sys.exit(1)
MainExit ==
    /\ pc = "checked"
    /\ checkRet = "false"
    /\ pc' = "exited"
    /\ exitCode' = 1
    /\ UNCHANGED <<fsFaulty, fs, written, mp4_files, idx, status,
                   summaryWritten>>
    /\ UNCHANGED <<toolVars, fileLocals, counters, history>>

\* process_directory(): write the log header
OpenLog ==
    /\ pc = "checked"
    /\ checkRet = "true"
    /\ fs' = fs \cup {LogName}
    /\ written' = written \cup {LogName}
    /\ tools' = <<>>
    /\ pc' = "glob"
    /\ UNCHANGED <<fsFaulty, checkRet, toolMissing, exitCode, mp4_files, idx,
                   status, summaryWritten>>
    /\ UNCHANGED <<fileLocals, counters, history>>

\* mp4_files = list(Path('.').glob('*.mp4')); return when there are none
ListFiles ==
    /\ pc = "glob"
    /\ \E listing \in Listings(GlobMp4(fs)) :
          /\ mp4_files' = listing
          /\ status' = [i \in DOMAIN listing |-> "DISCOVERED"]
          /\ ffmpegRuns' = [i \in DOMAIN listing |-> 0]
          /\ IF listing = <<>>
             THEN pc' = "done" /\ exitCode' = 0 /\ idx' = idx
             ELSE pc' = "loop" /\ exitCode' = exitCode /\ idx' = 1
    /\ UNCHANGED <<fsFaulty, fs, written, summaryWritten, extractCalls,
                   injectCalls>>
    /\ UNCHANGED <<toolVars, fileLocals, counters>>

\* the 'already processed' branch of the loop
SkipProcessed ==
    /\ InLoop
    /\ IsProcessed(Current)
    /\ skipped_files' = skipped_files + 1
    /\ status' = [status EXCEPT ![idx] = "SKIPPED_PROCESSED"]
    /\ idx' = ContinueLoop(idx, Len(mp4_files))
    /\ UNCHANGED <<pc, fsFaulty, exitCode, fs, written, mp4_files,
                   total_files, success_files, failed_files, summaryWritten>>
    /\ UNCHANGED <<toolVars, fileLocals, history>>

\* count the file, log its name, call extract_dji_markers
StartFile ==
    /\ InLoop
    /\ ~IsProcessed(Current)
    /\ total_files' = total_files + 1
    /\ \E res \in SampleResults :
          /\ stdout' = res
          /\ markers' = extract_dji_markers(res)
    /\ extractCalls' = extractCalls \cup {Current}
    /\ status' = [status EXCEPT ![idx] = "EXTRACTING"]
    /\ pc' = "extracted"
    /\ UNCHANGED <<fsFaulty, exitCode, fs, written, mp4_files, idx,
                   success_files, skipped_files, failed_files, metadata,
                   returncode, injectRet, injectCalls, ffmpegRuns,
                   summaryWritten>>
    /\ UNCHANGED toolVars

\* 'if not markers': log, count as skipped, continue
SkipNoMarkers ==
    /\ pc = "extracted"
    /\ NoMarkers(markers)
    /\ skipped_files' = skipped_files + 1
    /\ status' = [status EXCEPT ![idx] = "SKIPPED_NOMARKERS"]
    /\ idx' = ContinueLoop(idx, Len(mp4_files))
    /\ stdout' = NoExifResult
    /\ markers' = <<>>
    /\ pc' = "loop"
    /\ UNCHANGED <<fsFaulty, exitCode, fs, written, mp4_files, total_files,
                   success_files, failed_files, metadata, returncode,
                   injectRet, summaryWritten>>
    /\ UNCHANGED <<toolVars, history>>

\* log the markers, enter inject_chapters, create_metadata_file succeeds
InjectCreateMetadata ==
    /\ pc = "extracted"
    /\ ~NoMarkers(markers)
    /\ injectCalls' = injectCalls \cup {<<Current, markers>>}
    /\ status' = [status EXCEPT ![idx] = "INJECTING"]
    /\ metadata' = create_metadata_file(markers)
    /\ fs' = fs \cup {MetadataFile(Current)}
    /\ written' = written \cup {MetadataFile(Current)}
    /\ pc' = "run_ffmpeg"
    /\ UNCHANGED <<fsFaulty, exitCode, mp4_files, idx, stdout, markers,
                   returncode, injectRet, extractCalls, ffmpegRuns,
                   summaryWritten>>
    /\ UNCHANGED <<toolVars, counters>>

\* the same, but open() or write() of the metadata file raises: the file
\* may or may not have been created
InjectCreateMetadataRaises ==
    /\ pc = "extracted"
    /\ ~NoMarkers(markers)
    /\ injectCalls' = injectCalls \cup {<<Current, markers>>}
    /\ status' = [status EXCEPT ![idx] = "INJECTING"]
    /\ \E created \in BOOLEAN :
          /\ fs' = IF created THEN fs \cup {MetadataFile(Current)} ELSE fs
          /\ written' = IF created THEN written \cup {MetadataFile(Current)}
                        ELSE written
    /\ pc' = "except"
    /\ UNCHANGED <<fsFaulty, exitCode, mp4_files, idx, extractCalls,
                   ffmpegRuns, summaryWritten>>
    /\ UNCHANGED <<toolVars, counters, fileLocals>>

\* subprocess.run(['ffmpeg', ...]) returns: any exit status, the output file
\* written or left as it was
RunFfmpeg ==
    /\ pc = "run_ffmpeg"
    /\ \E rc \in {0, 1}, wrote \in BOOLEAN :
          /\ returncode' = rc
          /\ fs' = IF wrote THEN fs \cup {OutputFile(Current)} ELSE fs
          /\ written' = IF wrote THEN written \cup {OutputFile(Current)}
                        ELSE written
    /\ ffmpegRuns' = [ffmpegRuns EXCEPT ![idx] = @ + 1]
    /\ pc' = "unlink"
    /\ UNCHANGED <<fsFaulty, exitCode, mp4_files, idx, stdout, markers,
                   metadata, injectRet, status, extractCalls, injectCalls,
                   summaryWritten>>
    /\ UNCHANGED <<toolVars, counters>>

\* subprocess.run raises: ffmpeg could not be started, or it ran and its
\* captured output could not be decoded
RunFfmpegRaises ==
    /\ pc = "run_ffmpeg"
    /\ \E ran \in BOOLEAN, wrote \in BOOLEAN :
          /\ wrote => ran
          /\ fs' = IF wrote THEN fs \cup {OutputFile(Current)} ELSE fs
          /\ written' = IF wrote THEN written \cup {OutputFile(Current)}
                        ELSE written
          /\ ffmpegRuns' = IF ran THEN [ffmpegRuns EXCEPT ![idx] = @ + 1]
                           ELSE ffmpegRuns
    /\ pc' = "except"
    /\ UNCHANGED <<fsFaulty, exitCode, mp4_files, idx, status, extractCalls,
                   injectCalls, summaryWritten>>
    /\ UNCHANGED <<toolVars, counters, fileLocals>>

\* unlink the metadata file, test the success condition, return
UnlinkAndReturn ==
    /\ pc = "unlink"
    /\ fs' = fs \ {MetadataFile(Current)}
    /\ injectRet' = IF InjectSuccess(returncode, OutputFile(Current) \in fs')
                    THEN "true" ELSE "false"
    /\ pc' = "returned"
    /\ UNCHANGED <<fsFaulty, exitCode, written, mp4_files, idx, stdout,
                   markers, metadata, returncode, status, summaryWritten>>
    /\ UNCHANGED <<toolVars, counters, history>>

\* the unlink inside the try block raises
UnlinkRaises ==
    /\ pc = "unlink"
    /\ fsFaulty
    /\ pc' = "except"
    /\ UNCHANGED <<fsFaulty, exitCode, fs, written, mp4_files, idx, status,
                   summaryWritten>>
    /\ UNCHANGED <<toolVars, counters, fileLocals, history>>

\* except Exception: unlink the metadata file, return False
ExceptReturn ==
    /\ pc = "except"
    /\ fs' = ExceptCleanup(fs, Current)
    /\ injectRet' = "false"
    /\ pc' = "returned_exc"
    /\ UNCHANGED <<fsFaulty, exitCode, written, mp4_files, idx, stdout,
                   markers, metadata, returncode, status, summaryWritten>>
    /\ UNCHANGED <<toolVars, counters, history>>

\* back in the loop: count and log the outcome of inject_chapters
AfterInject ==
    /\ pc \in {"returned", "returned_exc"}
    /\ IF injectRet = "true"
       THEN /\ success_files' = success_files + 1
            /\ failed_files' = failed_files
            /\ status' = [status EXCEPT ![idx] = "SUCCEEDED"]
       ELSE /\ success_files' = success_files
            /\ failed_files' = failed_files + 1
            /\ status' = [status EXCEPT ![idx] = "FAILED"]
    /\ idx' = ContinueLoop(idx, Len(mp4_files))
    /\ stdout' = NoExifResult
    /\ markers' = <<>>
    /\ metadata' = NoMetadata
    /\ returncode' = 0
    /\ injectRet' = "none"
    /\ pc' = "loop"
    /\ UNCHANGED <<fsFaulty, exitCode, fs, written, mp4_files, total_files,
                   skipped_files, summaryWritten>>
    /\ UNCHANGED <<toolVars, history>>

\* after the loop: print the summary and append it to the log
Summary ==
    /\ pc = "loop"
    /\ idx > Len(mp4_files)
    /\ summaryWritten' = TRUE
    /\ pc' = "done"
    /\ exitCode' = 0
    /\ UNCHANGED <<fsFaulty, fs, written, mp4_files, idx, status>>
    /\ UNCHANGED <<toolVars, counters, fileLocals, history>>

\* places where a file operation outside any try block comes next: the log
\* writes of process_directory, the glob, the unlink of the except clause
AtFileOperation ==
    \/ pc = "checked" /\ checkRet = "true"
    \/ pc = "glob"
    \/ InLoop /\ ~IsProcessed(Current)
    \/ pc \in {"extracted", "except", "returned", "returned_exc"}
    \/ pc = "loop" /\ idx > Len(mp4_files)

\* such an operation raises: the exception leaves main()
FsError ==
    /\ fsFaulty
    /\ AtFileOperation
    /\ pc' = "crashed"
    /\ exitCode' = 1
    /\ UNCHANGED <<fsFaulty, fs, written, mp4_files, idx, status,
                   summaryWritten>>
    /\ UNCHANGED <<toolVars, counters, fileLocals, history>>

Next ==
    \/ CheckTools
    \/ MainExit
    \/ OpenLog
    \/ ListFiles
    \/ SkipProcessed
    \/ StartFile
    \/ SkipNoMarkers
    \/ InjectCreateMetadata
    \/ InjectCreateMetadataRaises
    \/ RunFfmpeg
    \/ RunFfmpegRaises
    \/ UnlinkAndReturn
    \/ UnlinkRaises
    \/ ExceptReturn
    \/ AfterInject
    \/ Summary
    \/ FsError

Spec == Init /\ [][Next]_vars

\* every external process returns and the program keeps running
FairSpec == Spec /\ WF_vars(Next)

\* ------------------------------------- extract_dji_markers as a function
InitExtract ==
    /\ Idle
    /\ pc = "call_extract"
    /\ stdout \in ExifResults
    /\ markers = <<>>
    /\ metadata = NoMetadata

CallExtract ==
    /\ pc = "call_extract"
    /\ markers' = extract_dji_markers(stdout)
    /\ pc' = "extract_returned"
    /\ UNCHANGED <<stdout, metadata>>
    /\ UNCHANGED driverVars

NextExtract == CallExtract

SpecExtract == InitExtract /\ [][NextExtract]_vars

\* ------------------------------------ create_metadata_file as a function
InitMeta ==
    /\ Idle
    /\ pc = "call_create"
    /\ stdout = NoExifResult
    /\ markers \in MarkerLists
    /\ metadata = NoMetadata

CallCreate ==
    /\ pc = "call_create"
    /\ metadata' = create_metadata_file(markers)
    /\ pc' = "create_returned"
    /\ UNCHANGED <<stdout, markers>>
    /\ UNCHANGED driverVars

NextMeta == CallCreate

SpecMeta == InitMeta /\ [][NextMeta]_vars

\* C2: for a non-empty ascending marker list the metadata holds one block
\* per marker, in order; block i starts at m_i*1000 and ends where the next
\* block starts, the last one 1000 ms after its own start.
C2_Intervals ==
    pc = "create_returned" =>
        /\ Len(metadata.chapters) = Len(markers)
        /\ \A i \in 1..Len(markers) :
              /\ metadata.chapters[i].START = markers[i] * 1000
              /\ i < Len(markers) =>
                    metadata.chapters[i].END = markers[i + 1] * 1000
              /\ i = Len(markers) =>
                    metadata.chapters[i].END = markers[i] * 1000 + 1000

C2_Witness ==
    /\ pc = "create_returned"
    /\ markers = <<0, 65, 65>>
    /\ metadata.chapters[3].END = 66000
    /\ metadata.chapters[2].title = <<"Highlight", " ", "0", "1", ":", "0", "5">>

\* C9: the markers returned are the integers of the first line that names
\* the field and matches, sorted ascending, none of them negative; without
\* such a line the result is empty.
C9_NonNegativeSorted ==
    pc = "extract_returned" =>
        /\ IsAscending(markers)
        /\ \A i \in 1..Len(markers) : markers[i] >= 0
        /\ (stdout.raised \/ ~\E i \in 1..Len(stdout.stdout) :
                                  stdout.stdout[i] = "H") => markers = <<>>

\* C1: when the summary is reached, attempted = N - S and
\* succeeded + failed = attempted, with N the number of enumerated files,
\* S the skipped counter, attempted total_files, succeeded success_files.
C1_Counters ==
    (pc = "done" /\ summaryWritten) =>
        /\ total_files = Len(mp4_files) - skipped_files
        /\ success_files + failed_files = total_files

\* C3: when inject_chapters has returned, on the normal path or through the
\* except clause, the temporary metadata file of its input does not exist.
C3_TempFileAbsent ==
    pc \in {"returned", "returned_exc"} =>
        LET f == mp4_files[idx]
        IN (<<"temp_chapters_">> \o SubSeq(f, 1, Len(f) - 1) \o <<".txt">>)
               \notin fs

C3_Witness ==
    /\ pc = "returned_exc"
    /\ MetadataFile(Current) \in written
    /\ ffmpegRuns[idx] = 1

\* C4: a file whose stem ends with _chapters is never handed to the
\* extractor or the injector; its only states are DISCOVERED and
\* SKIPPED(already-processed), and it is skipped once the loop has passed it.
C4_ProcessedNeverExtracted ==
    \A i \in DOMAIN mp4_files :
        LET f == mp4_files[i]
        IN f[Len(f) - 1] = "_chapters" =>
              /\ f \notin extractCalls
              /\ \A c \in injectCalls : c[1] # f
              /\ status[i] \in {"DISCOVERED", "SKIPPED_PROCESSED"}
              /\ i < idx => status[i] = "SKIPPED_PROCESSED"

C4_Witness ==
    /\ pc = "done"
    /\ \E i, j \in DOMAIN mp4_files :
          /\ status[i] = "SKIPPED_PROCESSED"
          /\ status[j] = "SUCCEEDED"
          /\ i < j

\* C5: inject_chapters is never called with an empty marker list; a file
\* whose extraction gave [] has no ffmpeg run, no metadata file and no
\* output file made for it, and its next state is SKIPPED(no-markers).
C5_NoInjectWithoutMarkers ==
    /\ [](/\ \A c \in injectCalls : c[2] # <<>>
          /\ \A i \in DOMAIN mp4_files :
                (\/ status[i] = "SKIPPED_NOMARKERS"
                 \/ (i = idx /\ pc = "extracted" /\ markers = <<>>)) =>
                    /\ ffmpegRuns[i] = 0
                    /\ \A c \in injectCalls : c[1] # mp4_files[i]
                    /\ MetadataFile(mp4_files[i]) \notin written
                    /\ OutputFile(mp4_files[i]) \notin written)
    /\ [][(pc = "extracted" /\ markers = <<>> /\ ~fsFaulty) =>
             status'[idx] = "SKIPPED_NOMARKERS"]_vars

C5_Witness ==
    /\ pc = "done"
    /\ \E i, j \in DOMAIN mp4_files :
          /\ status[i] = "SKIPPED_NOMARKERS"
          /\ status[j] = "SUCCEEDED"
          /\ extractCalls = {mp4_files[i], mp4_files[j]}

\* C6: once a tool was not found, the program is in check_tools' aftermath
\* or has exited with status 1; no log was written, no file enumerated, no
\* extractor or injector call made.  A probe that only exits non-zero
\* leaves the tool present.
C6_MissingToolStopsRun ==
    /\ toolMissing =>
          /\ pc \in {"checked", "exited"}
          /\ pc = "checked" => checkRet = "false"
          /\ pc = "exited" => exitCode = 1
          /\ written = {}
          /\ mp4_files = <<>>
          /\ extractCalls = {}
          /\ injectCalls = {}
    /\ (pc = "checked" /\ \A t \in ToolNames : tools[t] \in {"ok", "nonzero"})
          => checkRet = "true"

C6_Witness ==
    /\ pc = "exited"
    /\ exitCode = 1
    /\ tools["exiftool"] = "nonzero"
    /\ tools["ffmpeg"] = "notfound"

\* C7: files reach their states in enumeration order, each along one of the
\* four paths, a terminal state never changes, and when file operations do
\* not raise every file of the batch reaches a terminal state and the
\* summary is written, whatever happened to earlier files.
C7_FailuresIsolated ==
    /\ [](\A i, j \in DOMAIN status :
              (i < j /\ status[j] # "DISCOVERED") => status[i] \in Terminal)
    /\ [][DOMAIN status' = DOMAIN status =>
             \A i \in DOMAIN status :
                \/ status'[i] = status[i]
                \/ <<status[i], status'[i]>> \in
                      {<<"DISCOVERED", "SKIPPED_PROCESSED">>,
                       <<"DISCOVERED", "EXTRACTING">>,
                       <<"EXTRACTING", "SKIPPED_NOMARKERS">>,
                       <<"EXTRACTING", "INJECTING">>,
                       <<"INJECTING", "SUCCEEDED">>,
                       <<"INJECTING", "FAILED">>}]_vars
    /\ (pc = "loop" /\ ~fsFaulty) ~>
          (/\ pc = "done"
           /\ summaryWritten
           /\ \A i \in DOMAIN status : status[i] \in Terminal)

C7_Witness ==
    /\ pc = "done"
    /\ summaryWritten
    /\ \E i, j \in DOMAIN status :
          /\ i < j
          /\ status[i] = "FAILED"
          /\ status[j] = "SUCCEEDED"

\* C8: inject_chapters returns True exactly when ffmpeg exited with status
\* zero and the output file exists afterwards; through the except clause it
\* returns False.  ffmpeg runs at most once per file and, once it has
\* returned, the output file is neither removed nor created.
C8_SuccessCondition ==
    /\ [](/\ pc = "returned" =>
                LET f == mp4_files[idx]
                    out == SubSeq(f, 1, Len(f) - 1) \o <<"_chapters", ".mp4">>
                IN injectRet = "true" <=> (returncode = 0 /\ out \in fs)
          /\ pc = "returned_exc" => injectRet = "false"
          /\ \A i \in DOMAIN ffmpegRuns : ffmpegRuns[i] <= 1)
    /\ [][(pc \in {"unlink", "except", "returned", "returned_exc"}) =>
             (LET f == mp4_files[idx]
                  out == SubSeq(f, 1, Len(f) - 1) \o <<"_chapters", ".mp4">>
              IN (out \in fs') <=> (out \in fs))]_vars

C8_Witness ==
    /\ pc = "returned"
    /\ returncode = 0
    /\ OutputFile(Current) \notin fs
    /\ injectRet = "false"

\* C10: the output of an injection is never a file the run hands to the
\* extractor or injector, no such input is ever written by the run, and the
\* batch does not change once it has been enumerated.
C10_InputsNeverOverwritten ==
    /\ [](/\ \A c \in injectCalls :
                LET f == c[1]
                    out == SubSeq(f, 1, Len(f) - 1) \o <<"_chapters", ".mp4">>
                IN /\ out \notin extractCalls
                   /\ \A d \in injectCalls : d[1] # out
          /\ extractCalls \cap written = {})
    /\ [][pc \notin {"main", "checked", "glob"} => mp4_files' = mp4_files]_vars

C10_Witness ==
    \E i, j \in DOMAIN mp4_files :
        /\ status[j] = "SKIPPED_PROCESSED"
        /\ mp4_files[j] \in written
        /\ mp4_files[i] \in extractCalls
        /\ mp4_files[j] \notin extractCalls

====
